---- MODULE Spec2Model ----
(***************************************************************************)
(* Model of src/script.js: the page-enhancement script of the landing      *)
(* page.  The script runs top to bottom once at load (lines 1-22); after   *)
(* that the host calls back the IntersectionObserver callback (lines 3-9)  *)
(* and the form's submit listener (lines 17-22).                           *)
(*                                                                         *)
(* Texts are modelled as follows: the year text is the sequence of the     *)
(* decimal digits written by the textContent setter; the button label is   *)
(* a string, in which the check mark U+2713 is spelled "[U+2713]".         *)
(***************************************************************************)
EXTENDS Integers, Sequences, FiniteSets, TLC

\* ---------------------------------------------------------------- bounds
\* Number of element identities the document may ever hold (1 = A, 2 = B, 3 = C).
MaxElems == 3
\* Longest list of entries the host hands to one callback invocation.
MaxBatch == 2
\* The environment's clock at the start of a behaviour, and how often the
\* year may roll over during it.
StartYear == 2026
MaxTicks == 1
\* The host samples the geometry again only while fewer entries than this
\* wait for the notification.
MaxQueue == 2

Elements == 1..MaxElems

\* --------------------------------------------------- program constants
\* script.js:10  { threshold: 0.2 }, in percent of the target's area.
Threshold == 20
\* script.js:20  the label written by the submit listener.
SubmittedLabel == "Project Submitted [U+2713]"
\* The label the markup gives the button before any submission.
MarkupLabel == "Submit"
\* Visible fractions (percent) a scroll step may give an element.
Fractions == {0, 10, 20, 25, 30}

VARIABLES
  pc,             \* position of the top-level script: the line it executes next
  uncaught,       \* uncaught exceptions so far, as <<origin, name>> pairs
  ioSupported,    \* environment: the global IntersectionObserver exists
  clock,          \* environment: the current year of the clock
  ticks,          \* number of year roll-overs so far
  classList,      \* document: reveal-marked node -> its class tokens, in order
  hasYear,        \* document: an element with id "year" exists
  yearText,       \* textContent of the year element (decimal digits)
  form,           \* document: "none", "nobutton" or "button"
  buttonText,     \* textContent of the form's button
  buttonDisabled, \* disabled property of the form's button
  revealElements, \* script.js:1   the static NodeList
  observerMade,   \* script.js:2   the observer has been constructed
  observed,       \* the observer's observation targets
  listenerBound,  \* script.js:17  the submit listener is attached
  navigated,      \* the browser performed a submit's default action
  prevIndex,      \* host: per target, the threshold index of the last sample
  queue,          \* host: entries queued for the next notification
  \* history variables, read by the properties only
  last,           \* the last step: its operation and what it processed
  seenTrue,       \* targets of the processed entries with isIntersecting = true
  everAbove,      \* targets some sample found at or above 20% visible
  loadYear,       \* the clock's year when line 15 ran (0: it did not run)
  atLoad          \* the .reveal elements in the document when line 1 ran

vars == <<pc, uncaught, ioSupported, clock, ticks, classList, hasYear, yearText,
          form, buttonText, buttonDisabled, revealElements, observerMade,
          observed, listenerBound, navigated, prevIndex, queue,
          last, seenTrue, everAbove, loadYear, atLoad>>

envVars  == <<ioSupported, hasYear, form>>
hostVars == <<prevIndex, queue, everAbove>>

\* ------------------------------------------------------ DOM primitives
Contains(tokens, t) == \E i \in 1..Len(tokens) : tokens[i] = t

\* DOMTokenList.add (script.js:6): the token list is an ordered set.
ClassListAddTwice(tokens, t) == Append(tokens, t)
ClassListAdd(tokens, t) == IF Contains(tokens, t) THEN tokens ELSE Append(tokens, t)

\* document.querySelectorAll('.reveal') (script.js:1)
QuerySelectorAll(cl, t) == {e \in DOMAIN cl : Contains(cl[e], t)}

IsVisible(e) == e \in DOMAIN classList /\ Contains(classList[e], "visible")
Count(tokens, t) == Cardinality({i \in 1..Len(tokens) : tokens[i] = t})

\* Number -> String, as the textContent setter converts its value (script.js:15)
RECURSIVE NumberToString(_)
NumberToString(n) ==
  IF n < 10 THEN <<n>> ELSE Append(NumberToString(n \div 10), n % 10)

\* Date.prototype.getFullYear (script.js:15)
GetYear(c) == c - 1900
GetFullYear(c) == c

\* ------------------------------------------------- the observer callback
\* script.js:5-7  the body of entries.forEach
OnEntryToggle(cl, entry) ==
  IF entry.isIntersecting
    THEN [cl EXCEPT ![entry.target] = ClassListAdd(@, "visible")]
    ELSE [cl EXCEPT ![entry.target] = SelectSeq(@, LAMBDA t : t # "visible")]
OnEntryAll(cl, entry) ==
  IF entry.isIntersecting
    THEN [e \in DOMAIN cl |-> ClassListAdd(cl[e], "visible")]
    ELSE cl
OnEntryAlways(cl, entry) ==
  [cl EXCEPT ![entry.target] = ClassListAdd(@, "visible")]
OnEntry(cl, entry) ==
  IF entry.isIntersecting
    THEN [cl EXCEPT ![entry.target] = ClassListAdd(@, "visible")]
    ELSE cl

\* script.js:3-9  (entries) => { entries.forEach(...) }
RECURSIVE ObserverCallback(_, _)
ObserverCallback(cl, entries) ==
  IF entries = <<>> THEN cl
  ELSE ObserverCallback(OnEntry(cl, Head(entries)), Tail(entries))

TrueTargets(entries) ==
  {entries[i].target : i \in {j \in 1..Len(entries) : entries[j].isIntersecting}}

\* script.js:13  observer.observe(element)
ObserveOnly(obs, e) == {e}
Observe(obs, e) == obs \cup {e}

\* script.js:13  revealElements.forEach((element) => observer.observe(element))
RECURSIVE ObserveAll(_, _)
ObserveAll(obs, els) ==
  IF els = {} THEN obs
  ELSE LET e == CHOOSE x \in els : \A y \in els : x <= y
       IN ObserveAll(Observe(obs, e), els \ {e})

EntrySet(targets) == [target : targets, isIntersecting : BOOLEAN]
Batches(targets) == UNION {[1..n -> EntrySet(targets)] : n \in 1..MaxBatch}

FalseTargets(entries) ==
  {entries[i].target : i \in {j \in 1..Len(entries) : ~entries[j].isIntersecting}}

VisibleIn(cl) == {e \in DOMAIN cl : Contains(cl[e], "visible")}

\* The record of a step: its operation; for a callback, the targets of the
\* entries it processed and the elements that were visible before it; for
\* a submit, whether the button was disabled before it.
Step(op) == [op |-> op, trueT |-> {}, falseT |-> {}, before |-> {},
             wasDisabled |-> FALSE]
NoOp == Step("none")

\* ------------------------------------------------------------- initial
Init ==
  /\ pc = "line1"
  /\ uncaught = {}
  /\ ioSupported \in BOOLEAN
  /\ clock = StartYear
  /\ ticks = 0
  /\ \E n \in 0..MaxElems : classList = [e \in 1..n |-> <<"reveal">>]
  /\ hasYear \in BOOLEAN
  /\ yearText = <<>>
  /\ form \in {"none", "nobutton", "button"}
  /\ buttonText = MarkupLabel
  /\ buttonDisabled = FALSE
  /\ revealElements = {}
  /\ observerMade = FALSE
  /\ observed = {}
  /\ listenerBound = FALSE
  /\ navigated = FALSE
  /\ prevIndex = [e \in Elements |-> -1]
  /\ queue = <<>>
  /\ last = NoOp
  /\ seenTrue = {}
  /\ everAbove = {}
  /\ loadYear = 0
  /\ atLoad = {}

\* ------------------------------------------------ the top-level script
\* script.js:1
Line1 ==
  /\ pc = "line1"
  /\ revealElements' = QuerySelectorAll(classList, "reveal")
  /\ atLoad' = QuerySelectorAll(classList, "reveal")
  /\ pc' = "line2"
  /\ last' = Step("line1")
  /\ UNCHANGED <<uncaught, envVars, clock, ticks, classList, yearText,
                 buttonText, buttonDisabled, observerMade, observed,
                 listenerBound, navigated, hostVars, seenTrue, loadYear>>

\* script.js:2-11  new IntersectionObserver(callback, { threshold: 0.2 });
\* the name is unbound where the interface is missing: a ReferenceError
\* ends the script.
Line2 ==
  /\ pc = "line2"
  /\ IF ioSupported
       THEN /\ observerMade' = TRUE
            /\ pc' = "line13"
            /\ UNCHANGED uncaught
       ELSE /\ uncaught' = uncaught \cup {<<"load", "ReferenceError">>}
            /\ pc' = "error"
            /\ UNCHANGED observerMade
  /\ last' = Step("line2")
  /\ UNCHANGED <<envVars, clock, ticks, classList, yearText, buttonText,
                 buttonDisabled, revealElements, observed, listenerBound,
                 navigated, hostVars, seenTrue, loadYear, atLoad>>

\* script.js:13
Line13 ==
  /\ pc = "line13"
  /\ observed' = ObserveAll(observed, revealElements)
  /\ pc' = "line15"
  /\ last' = Step("line13")
  /\ UNCHANGED <<uncaught, envVars, clock, ticks, classList, yearText,
                 buttonText, buttonDisabled, revealElements, observerMade,
                 listenerBound, navigated, hostVars, seenTrue,
                 loadYear, atLoad>>

\* script.js:15  getElementById returns null where no element has the id,
\* and setting a property of null is a TypeError that ends the script.
Line15 ==
  /\ pc = "line15"
  /\ IF hasYear
       THEN /\ yearText' = NumberToString(GetFullYear(clock))
            /\ loadYear' = clock
            /\ pc' = "line17"
            /\ UNCHANGED uncaught
       ELSE /\ uncaught' = uncaught \cup {<<"load", "TypeError">>}
            /\ pc' = "error"
            /\ UNCHANGED <<yearText, loadYear>>
  /\ last' = Step("line15")
  /\ UNCHANGED <<envVars, clock, ticks, classList, buttonText, buttonDisabled,
                 revealElements, observerMade, observed, listenerBound,
                 navigated, hostVars, seenTrue, atLoad>>

\* script.js:17  querySelector returns null where nothing matches, and
\* calling a method of null is a TypeError that ends the script.
Line17 ==
  /\ pc = "line17"
  /\ IF form # "none"
       THEN /\ listenerBound' = TRUE
            /\ pc' = "done"
            /\ UNCHANGED uncaught
       ELSE /\ uncaught' = uncaught \cup {<<"load", "TypeError">>}
            /\ pc' = "error"
            /\ UNCHANGED listenerBound
  /\ last' = Step("line17")
  /\ UNCHANGED <<envVars, clock, ticks, classList, yearText, buttonText,
                 buttonDisabled, revealElements, observerMade, observed,
                 navigated, hostVars, seenTrue, loadYear, atLoad>>

\* The script has run to its end or to an uncaught exception, and the page
\* has not been unloaded: the host dispatches events.
Idle == pc \in {"done", "error"} /\ ~navigated

\* ---------------------------------------------------------- callbacks
\* The host invokes the observer's callback (script.js:3-9) with a
\* non-empty list of entries for observation targets.
HostNotify(entries) ==
  /\ Idle
  /\ observerMade
  /\ classList' = ObserverCallback(classList, entries)
  /\ seenTrue' = seenTrue \cup TrueTargets(entries)
  /\ last' = [Step("callback") EXCEPT !.trueT = TrueTargets(entries),
                                      !.falseT = FalseTargets(entries),
                                      !.before = VisibleIn(classList)]
  /\ UNCHANGED <<pc, uncaught, envVars, clock, ticks, yearText, buttonText,
                 buttonDisabled, revealElements, observerMade, observed,
                 listenerBound, navigated, hostVars, loadYear, atLoad>>

Notify == \E entries \in Batches(observed) : HostNotify(entries)

\* script.js:17-22  the submit listener: it cancels the event, then
\* relabels and disables the form's first button; where the form has no
\* button, setting a property of null throws after the cancellation.
SubmitListenerToggle(hasButton, text, disabled) ==
  [defaultPrevented |-> TRUE,
   threw    |-> ~hasButton,
   text     |-> IF hasButton THEN SubmittedLabel ELSE text,
   disabled |-> IF hasButton THEN ~disabled ELSE disabled]
SubmitListenerNoCancel(hasButton, text, disabled) ==
  [defaultPrevented |-> FALSE,
   threw    |-> ~hasButton,
   text     |-> IF hasButton THEN SubmittedLabel ELSE text,
   disabled |-> IF hasButton THEN TRUE ELSE disabled]
SubmitListener(hasButton, text, disabled) ==
  [defaultPrevented |-> TRUE,
   threw    |-> ~hasButton,
   text     |-> IF hasButton THEN SubmittedLabel ELSE text,
   disabled |-> IF hasButton THEN TRUE ELSE disabled]

\* A submit event with no listener attached.
NoListener(text, disabled) ==
  [defaultPrevented |-> FALSE, threw |-> FALSE, text |-> text, disabled |-> disabled]

\* A submit event on the form.  A click needs an enabled button;
\* form.requestSubmit() and the like do not.  An event that no listener
\* cancelled ends in the browser's default action: the form is sent and
\* the page is left.
Submit(via) ==
  /\ Idle
  /\ form # "none"
  /\ via = "click" => (form = "button" /\ ~buttonDisabled)
  /\ LET r == IF listenerBound
                THEN SubmitListener(form = "button", buttonText, buttonDisabled)
                ELSE NoListener(buttonText, buttonDisabled)
     IN /\ buttonText' = r.text
        /\ buttonDisabled' = r.disabled
        /\ uncaught' = IF r.threw THEN uncaught \cup {<<"submit", "TypeError">>}
                                  ELSE uncaught
        /\ navigated' = ~r.defaultPrevented
  /\ last' = [Step("submit") EXCEPT !.wasDisabled = buttonDisabled]
  /\ UNCHANGED <<pc, envVars, clock, ticks, classList, yearText,
                 revealElements, observerMade, observed, listenerBound,
                 hostVars, seenTrue, loadYear, atLoad>>

SubmitEvent == \E via \in {"click", "requestSubmit"} : Submit(via)

\* --------------------------------------------------------- environment
\* Another party adds a .reveal element to the document after load.
AddElement ==
  /\ Idle
  /\ \E e \in Elements \ DOMAIN classList :
       classList' = classList @@ (e :> <<"reveal">>)
  /\ last' = Step("add")
  /\ UNCHANGED <<pc, uncaught, envVars, clock, ticks, yearText, buttonText,
                 buttonDisabled, revealElements, observerMade, observed,
                 listenerBound, navigated, hostVars, seenTrue,
                 loadYear, atLoad>>

\* The year of the clock rolls over.
Tick ==
  /\ ticks < MaxTicks
  /\ ticks' = ticks + 1
  /\ clock' = clock + 1
  /\ last' = Step("tick")
  /\ UNCHANGED <<pc, uncaught, envVars, classList, yearText, buttonText,
                 buttonDisabled, revealElements, observerMade, observed,
                 listenerBound, navigated, hostVars, seenTrue,
                 loadYear, atLoad>>

\* ------------------------------------------------- the host's observer
\* The observer was constructed with { threshold: 0.2 } (script.js:10): the
\* threshold index of a sample is the number of thresholds its ratio
\* reaches, and browsers report isIntersecting where that index is not 0.
ThresholdIndexStrict(r) == IF r > Threshold THEN 1 ELSE 0
ThresholdIndex(r) == IF r >= Threshold THEN 1 ELSE 0

\* The entries one sample queues: one for each target whose threshold index
\* differs from that of its previous sample (-1 before the first), in the
\* order of observation.
RECURSIVE SampleEntries(_, _, _)
SampleEntries(targets, r, prev) ==
  IF targets = {} THEN <<>>
  ELSE LET e == CHOOSE x \in targets : \A y \in targets : x <= y
           rest == SampleEntries(targets \ {e}, r, prev)
       IN IF ThresholdIndex(r[e]) # prev[e]
            THEN <<[target |-> e, isIntersecting |-> ThresholdIndex(r[e]) > 0]>> \o rest
            ELSE rest

\* A scroll or layout step gives every target a visible fraction; the
\* host samples it and queues the entries (script.js:2-13).
Scroll(r) ==
  /\ Idle
  /\ observerMade
  /\ observed # {}
  /\ Len(queue) < MaxQueue
  /\ queue' = queue \o SampleEntries(observed, r, prevIndex)
  /\ prevIndex' = [e \in Elements |->
                     IF e \in observed THEN ThresholdIndex(r[e]) ELSE prevIndex[e]]
  /\ everAbove' = everAbove \cup {e \in observed : r[e] >= Threshold}
  /\ last' = Step("scroll")
  /\ UNCHANGED <<pc, uncaught, envVars, clock, ticks, classList, yearText,
                 buttonText, buttonDisabled, revealElements, observerMade,
                 observed, listenerBound, navigated, seenTrue, loadYear, atLoad>>

ScrollStep == \E r \in [observed -> Fractions] : Scroll(r)

\* The host notifies the observer: the callback (script.js:3-9) runs once
\* with all queued entries.
Deliver ==
  /\ Idle
  /\ observerMade
  /\ queue # <<>>
  /\ classList' = ObserverCallback(classList, queue)
  /\ seenTrue' = seenTrue \cup TrueTargets(queue)
  /\ queue' = <<>>
  /\ last' = [Step("callback") EXCEPT !.trueT = TrueTargets(queue),
                                      !.falseT = FalseTargets(queue),
                                      !.before = VisibleIn(classList)]
  /\ UNCHANGED <<pc, uncaught, envVars, clock, ticks, yearText, buttonText,
                 buttonDisabled, revealElements, observerMade, observed,
                 listenerBound, navigated, prevIndex, everAbove,
                 loadYear, atLoad>>

Next ==
  \/ Line1
  \/ Line2
  \/ Line13
  \/ Line15
  \/ Line17
  \/ Notify
  \/ SubmitEvent
  \/ AddElement

Spec == Init /\ [][Next]_vars

\* The same page with a clock whose year rolls over, the host delivering
\* one entry per notification.
NotifyOne == \E entry \in EntrySet(observed) : HostNotify(<<entry>>)

NextClock ==
  \/ Line1
  \/ Line2
  \/ Line13
  \/ Line15
  \/ Line17
  \/ NotifyOne
  \/ SubmitEvent
  \/ Tick

SpecClock == Init /\ [][NextClock]_vars

\* A page with the markup of the input contract (a year element, a form
\* with its button), driven by the host's sampling of the geometry.
InitScroll == Init /\ hasYear /\ form = "button"

NextScroll ==
  \/ Line1
  \/ Line2
  \/ Line13
  \/ Line15
  \/ Line17
  \/ ScrollStep
  \/ Deliver

SpecScroll == InitScroll /\ [][NextScroll]_vars

\* ============================================================ properties
DomVars == <<classList, yearText, buttonText, buttonDisabled>>

TrueEntry(e)  == [target |-> e, isIntersecting |-> TRUE]
FalseEntry(e) == [target |-> e, isIntersecting |-> FALSE]

\* C1 (monotonicity): every element for which the callback has processed an
\* entry with isIntersecting = true carries the 'visible' marker, in that
\* state and in every later one; and no step of any operation takes the
\* 'visible' marker away from an element that carries it.
C1_Monotonic ==
  /\ [](\A e \in seenTrue : IsVisible(e))
  /\ [][\A e \in DOMAIN classList : IsVisible(e) => IsVisible(e)']_vars

\* C1 witness: an element revealed earlier stays visible through a submit
\* and a later callback that carries only a false entry for it.
C1_Witness ==
  \E e \in seenTrue :
    /\ IsVisible(e)
    /\ last.op = "callback"
    /\ e \in last.falseT /\ e \notin last.trueT /\ e \in last.before
    /\ buttonDisabled

\* C2 (no spurious reveal): an element for which no entry with
\* isIntersecting = true has been processed carries no 'visible' marker,
\* whatever else has happened (entries for other elements, false entries
\* for it, the year stamp, submit events).
C2_NoSpuriousReveal ==
  \A e \in DOMAIN classList : e \notin seenTrue => ~IsVisible(e)

\* C2 witness: an element is still hidden after a false entry for it, a
\* true entry for another element, the year stamp and a handled submit.
C2_Witness ==
  \E e \in observed :
    /\ e \notin seenTrue /\ ~IsVisible(e)
    /\ last.op = "callback" /\ e \in last.falseT
    /\ seenTrue # {}
    /\ yearText # <<>>
    /\ buttonDisabled

\* C3 (asymmetric handling): a callback step leaves untouched the class list
\* of every target for which it carries only entries with isIntersecting =
\* false, be the target hidden or visible; a callback that carries only such
\* entries changes nothing in the document (no class list, not the year
\* text, not the button).
C3_FalseEntryNoOp ==
  [][last'.op = "callback" =>
       /\ \A e \in last'.falseT \ last'.trueT : classList'[e] = classList[e]
       /\ last'.trueT = {} => UNCHANGED DomVars]_vars

\* C3 witness: one callback carried only false entries, one for a visible
\* target and one for a hidden target.
C3_Witness ==
  /\ last.op = "callback"
  /\ last.trueT = {}
  /\ \E e \in last.falseT : IsVisible(e)
  /\ \E e \in last.falseT : ~IsVisible(e)

\* C4 (idempotence of reveal): in every reachable state and for every
\* observed element e, the callback run on two true entries for e yields the
\* document it yields on one, with 'visible' exactly once in e's class list;
\* and a callback step whose true entries are all for elements that are
\* already visible changes nothing in the document and raises no error.
C4_Idempotent ==
  /\ [](\A e \in observed :
          LET once  == ObserverCallback(classList, <<TrueEntry(e)>>)
              twice == ObserverCallback(classList, <<TrueEntry(e), TrueEntry(e)>>)
          IN twice = once /\ Count(twice[e], "visible") = 1)
  /\ [][(last'.op = "callback" /\ last'.trueT \subseteq VisibleIn(classList))
         => UNCHANGED <<DomVars, uncaught>>]_vars

\* C4 witness: a callback processed a true entry for an element that was
\* visible before it.
C4_Witness ==
  /\ last.op = "callback"
  /\ \E e \in last.trueT : e \in last.before /\ Count(classList[e], "visible") = 1

\* The scenario of the specification, section 8: the fractions of A, B, C
\* (1, 2, 3) in the first and in the second scroll step.
ScrollOne == (1 :> 25) @@ (2 :> 10) @@ (3 :> 0)
ScrollTwo == (1 :> 0) @@ (2 :> 30) @@ (3 :> 0)

\* C5 (threshold-driven reveal): with the threshold at 20%, an observed
\* element is visible only if some sample found it at least 20% visible,
\* and once the host has delivered the queued entries every observed element
\* that some sample found at least 20% visible is visible.  In particular,
\* from the state after load with A, B, C observed and hidden: the step to
\* 25%, 10%, 0% makes exactly A visible, and the further step to 0%, 30%,
\* 0% leaves exactly A and B visible.
C5_ThresholdReveal ==
  /\ \A e \in observed :
       /\ IsVisible(e) => e \in everAbove
       /\ (queue = <<>> /\ e \in everAbove) => IsVisible(e)
  /\ (/\ observed = {1, 2, 3}
      /\ queue = <<>>
      /\ \A e \in observed : prevIndex[e] = -1 /\ ~IsVisible(e))
     => LET afterOne == ObserverCallback(classList,
                          SampleEntries(observed, ScrollOne, prevIndex))
            indexOne == [e \in observed |-> ThresholdIndex(ScrollOne[e])]
            afterTwo == ObserverCallback(afterOne,
                          SampleEntries(observed, ScrollTwo, indexOne))
        IN /\ VisibleIn(afterOne) = {1}
           /\ VisibleIn(afterTwo) = {1, 2}

\* C5 witness: the scenario of elements A, B, C (1, 2, 3), all observed.  A
\* was sampled above the threshold earlier and below it in its last sample,
\* B is above it in its last sample, C never reached it; everything queued
\* has been delivered: A and B are visible, C is hidden.
C5_Witness ==
  /\ observed = {1, 2, 3}
  /\ queue = <<>> /\ last.op = "callback"
  /\ everAbove = {1, 2}
  /\ prevIndex[1] = 0 /\ prevIndex[2] = 1 /\ prevIndex[3] = 0
  /\ IsVisible(1) /\ IsVisible(2) /\ ~IsVisible(3)

\* The script has ended, normally or by an uncaught exception.
ScriptEnded == pc \in {"done", "error"}
LoadErrors == {x \in uncaught : x[1] = "load"}

\* C6 (missing target element): where the observer is available and the
\* document lacks the year element or the form, the script ends without an
\* uncaught exception, the reveal elements are registered, and the effect
\* whose element does exist (year stamp, form binding) has been carried out.
C6_MissingTargetSkipped ==
  (ScriptEnded /\ ioSupported /\ (~hasYear \/ form = "none"))
    => /\ LoadErrors = {}
       /\ observed = atLoad
       /\ hasYear => yearText # <<>>
       /\ form # "none" => listenerBound

\* C7 (unsupported observation mechanism): where IntersectionObserver is
\* missing, the script ends without an uncaught exception, no element is
\* ever visible, and nothing else is lost: the year element, if any, is
\* stamped and the form, if any, has its listener.
C7_UnsupportedSilent ==
  (ScriptEnded /\ ~ioSupported)
    => /\ LoadErrors = {}
       /\ VisibleIn(classList) = {}
       /\ hasYear => yearText # <<>>
       /\ form # "none" => listenerBound

\* C8 (form submission): a submit event that the listener handles does not
\* end in the browser's default action (no navigation, no request), leaves
\* the form's button with the text 'Project Submitted [U+2713]' and
\* disabled, and changes no class list and not the year text.
C8_SubmitHandled ==
  [][(last'.op = "submit" /\ listenerBound)
       => /\ ~navigated'
          /\ form = "button" => (buttonText' = SubmittedLabel /\ buttonDisabled')
          /\ classList' = classList
          /\ yearText' = yearText]_vars

\* C8 witness: a handled submit on a page with a visible element and a
\* stamped year.
C8_Witness ==
  /\ last.op = "submit" /\ listenerBound /\ form = "button"
  /\ buttonText = SubmittedLabel /\ buttonDisabled /\ ~navigated
  /\ VisibleIn(classList) # {} /\ yearText # <<>>

\* C9 (fixed registration set): once the script has registered the reveal
\* elements (line 13), the observed set is exactly the set of .reveal
\* elements of the document at load: nothing is unregistered, also not
\* after it became visible, and a .reveal element added later is neither
\* observed nor ever visible.
C9_FixedRegistration ==
  (observerMade /\ pc \notin {"line1", "line2", "line13"})
    => /\ observed = atLoad
       /\ \A e \in DOMAIN classList \ atLoad : e \notin observed /\ ~IsVisible(e)

\* C9 witness: after a callback, two elements registered at load are still
\* observed, one of them visible, and an element added after load is in
\* the document, unobserved and hidden.
C9_Witness ==
  /\ Idle /\ last.op = "callback"
  /\ Cardinality(observed) >= 2
  /\ \E e \in observed : IsVisible(e)
  /\ \E e \in DOMAIN classList \ atLoad :
       Contains(classList[e], "reveal") /\ e \notin observed /\ ~IsVisible(e)

\* String -> Number: the value of a sequence of decimal digits.
RECURSIVE DigitsValue(_)
DigitsValue(ds) ==
  IF ds = <<>> THEN 0 ELSE 10 * DigitsValue(SubSeq(ds, 1, Len(ds) - 1)) + ds[Len(ds)]

\* C10 (year stamp): once the script has ended on a document that has the
\* year element, the text of that element is the decimal numeral of the
\* year the clock showed when the script stamped it at load, in every later
\* state, whatever the clock shows by then and whatever entries and submit
\* events were handled.
C10_YearStampAfterLoad ==
  (ScriptEnded /\ hasYear)
    => /\ loadYear # 0
       /\ yearText # <<>>
       /\ DigitsValue(yearText) = loadYear

\* Where the script has run line 15, the year text is the numeral, without
\* leading zero, of the year the clock showed at that moment, and stays so
\* through roll-overs of the clock, callbacks and submit events.
YearStamped == hasYear /\ pc \in {"line17", "done", "error"} /\ observerMade
YearStampWhereReached ==
  YearStamped
    => /\ loadYear # 0
       /\ yearText # <<>> /\ yearText[1] # 0
       /\ \A i \in 1..Len(yearText) : yearText[i] \in 0..9
       /\ DigitsValue(yearText) = loadYear

\* A state in which the year has rolled over since load and a true entry
\* and a submit have been handled.
YearStampKept ==
  /\ YearStamped /\ pc = "done"
  /\ clock > loadYear
  /\ seenTrue # {} /\ buttonDisabled

\* C11 (empty set): once the script has ended on a document that had no
\* .reveal element at load (and has the year element and the form), nothing
\* is registered for observation, no exception was raised, no element is
\* visible, the year is stamped and the submit listener is attached.
C11_EmptySet ==
  (ScriptEnded /\ atLoad = {} /\ hasYear /\ form # "none")
    => /\ observed = {}
       /\ LoadErrors = {}
       /\ VisibleIn(classList) = {}
       /\ yearText # <<>>
       /\ listenerBound

\* Where IntersectionObserver exists, the same holds: the forEach of line 13
\* over an empty NodeList registers nothing and the script runs on to its
\* end; elements added later stay unobserved and hidden.
EmptySetWhereSupported ==
  (ScriptEnded /\ ioSupported /\ atLoad = {} /\ hasYear /\ form # "none")
    => /\ pc = "done"
       /\ observed = {}
       /\ LoadErrors = {}
       /\ VisibleIn(classList) = {}
       /\ yearText # <<>>
       /\ listenerBound

\* A state of such a page after load, with an element added later.
EmptySetLoaded ==
  /\ pc = "done" /\ atLoad = {} /\ observerMade
  /\ DOMAIN classList # {}
  /\ observed = {} /\ listenerBound /\ yearText # <<>>

\* The callback invoked once per entry of a list, in the list's order.
RECURSIVE OneByOne(_, _)
OneByOne(cl, entries) ==
  IF entries = <<>> THEN cl
  ELSE OneByOne(ObserverCallback(cl, <<Head(entries)>>), Tail(entries))

\* C12 (order and batching independence): in every reachable state the
\* class list of each element is decided by whether some true entry for it
\* has been delivered, however the entries were ordered and grouped into
\* callbacks: the visible elements are exactly the targets of the true
\* entries.  And from every reachable state, for any two entries (also two
\* for one element with different isIntersecting values) the callback
\* yields the same document for the two in either order, in one
\* notification or in two, and the visible elements are then those visible
\* before together with the targets of the true entries.
C12_OrderBatchIndependent ==
  /\ VisibleIn(classList) = seenTrue
  /\ \A e \in DOMAIN classList :
       classList[e] = IF e \in seenTrue THEN <<"reveal", "visible">>
                                        ELSE <<"reveal">>
  /\ \A x, y \in EntrySet(observed) :
       LET both == ObserverCallback(classList, <<x, y>>)
       IN /\ both = ObserverCallback(classList, <<y, x>>)
          /\ both = OneByOne(classList, <<x, y>>)
          /\ both = OneByOne(classList, <<y, x>>)
          /\ VisibleIn(both) = VisibleIn(classList) \cup TrueTargets(<<x, y>>)

\* C12 witness: one callback carried a true and a false entry for the same
\* element while another element had been revealed by an earlier callback;
\* both are visible and a third observed element is not.
C12_Witness ==
  /\ last.op = "callback"
  /\ \E e \in last.trueT \cap last.falseT : IsVisible(e) /\ e \notin last.before
  /\ \E e \in last.before : e \notin last.trueT
  /\ \E e \in observed : ~IsVisible(e)

\* C13 (exactly-once transition at first intersection): a step changes the
\* class list of an element only from hidden to visible, and only as the
\* callback processing the first true entry for that element; the callback
\* that processes the first true entry for a hidden element makes it
\* visible in that very step; and an element once revealed by a true entry
\* counts as revealed ever after, so that it changes at most once.
C13_ExactlyOnce ==
  [][/\ seenTrue \subseteq seenTrue'
     /\ \A e \in DOMAIN classList :
          /\ classList'[e] # classList[e]
               => /\ ~IsVisible(e) /\ IsVisible(e)'
                  /\ last'.op = "callback" /\ e \in last'.trueT
                  /\ e \notin seenTrue /\ e \in seenTrue'
          /\ (last'.op = "callback" /\ e \in last'.trueT /\ e \notin seenTrue)
               => ~IsVisible(e) /\ IsVisible(e)']_vars

\* C13 witness: one callback carried the first true entry for one element,
\* which was hidden before and is visible now, and a further true entry
\* for an element that was visible already.
C13_Witness ==
  /\ last.op = "callback"
  /\ \E e \in last.trueT \ last.before : IsVisible(e)
  /\ \E e \in last.trueT \cap last.before : IsVisible(e)

\* C14 (exclusive writer of the visibility marker): a step changes the
\* class list of an element only if it is a callback that carries an entry
\* for that element; the steps of the top-level script (the year stamp
\* among them) and the submit listener change no class list.  Every step is
\* one whole run of the script's statement or of a handler.
C14_ExclusiveWriter ==
  [][/\ \A e \in DOMAIN classList :
          classList'[e] # classList[e]
            => last'.op = "callback" /\ e \in last'.trueT \cup last'.falseT
     /\ last'.op \in {"line1", "line2", "line13", "line15", "line17", "submit"}
          => classList' = classList]_vars

\* C14 witness: on a page with the year stamped and a submit handled, a
\* callback revealed one element and left hidden another observed element
\* for which it carried no entry.
C14_Witness ==
  /\ last.op = "callback"
  /\ yearText # <<>> /\ buttonDisabled
  /\ \E e \in last.trueT \ last.before : IsVisible(e)
  /\ \E e \in observed \ (last.trueT \cup last.falseT) : ~IsVisible(e)

\* The form's button as the submit listener leaves it.
Submitted == buttonDisabled /\ buttonText = SubmittedLabel

\* C15 (submit is absorbing and idempotent): on a form with a button, a
\* submit event that the listener handles leaves the button disabled with
\* the text 'Project Submitted [U+2713]'; no later step re-enables or
\* relabels it; while it is so, no click on the button can submit the
\* form; and a submit event that reaches the listener all the same is
\* cancelled again and leaves the button's text and disabled flag as they
\* were.
C15_SubmitAbsorbing ==
  /\ [][(last'.op = "submit" /\ listenerBound /\ form = "button")
          => Submitted']_vars
  /\ [][Submitted => Submitted']_vars
  /\ [](Submitted => ~ENABLED Submit("click"))
  /\ [][(Submitted /\ last'.op = "submit")
          => /\ ~navigated'
             /\ UNCHANGED <<buttonText, buttonDisabled>>]_vars

\* C15 witness: the listener handled a submit event while the button was
\* disabled already, and the button is still disabled and relabelled.
C15_Witness ==
  /\ last.op = "submit" /\ last.wasDisabled
  /\ listenerBound /\ form = "button"
  /\ Submitted /\ ~navigated

====
